---- MODULE Spec2Model ----
(***************************************************************************)
(* Model of src/agent.py, the documentation query agent: scrape a page,    *)
(* index its text in the on-disk "index" directory, load a QA model and    *)
(* answer queries in a loop.                                               *)
(*                                                                         *)
(* A Python string is a sequence of symbols.  A symbol is either a         *)
(* whitespace character (" " or "\n") or a whole word: a maximal run of    *)
(* non-whitespace characters that the index analyzer keeps as one term.    *)
(* Python's None is the empty option <<>>, a value v is <<v>>.             *)
(***************************************************************************)
EXTENDS Integers, Sequences, FiniteSets, TLC

\* ---------------------------------------------------------------- bounds
MaxSessions == 2
MaxQueries == 2
MaxIndexCalls == 2
MaxLen == 3
MaxElems == 2
MaxTextLen == 1

\* --------------------------------------------------------------- strings
Whitespace == {" ", "\n"}

None == <<>>
Some(v) == <<v>>

SeqsUpTo(S, n) == UNION {[1..k -> S] : k \in 0..n}

\* str.lower() on one symbol
Lower(c) ==
  CASE c = "EXIT" -> "exit"
    [] c = "Exit" -> "exit"
    [] c = "Init" -> "init"
    [] OTHER -> c

LowerStr(s) == [i \in 1..Len(s) |-> Lower(s[i])]

RECURSIVE LStrip(_)
LStrip(s) ==
  IF s = <<>> THEN s
  ELSE IF Head(s) \in Whitespace THEN LStrip(Tail(s)) ELSE s

RECURSIVE RStrip(_)
RStrip(s) ==
  IF s = <<>> THEN s
  ELSE IF s[Len(s)] \in Whitespace THEN RStrip(SubSeq(s, 1, Len(s) - 1)) ELSE s

\* str.strip()
Strip(s) == RStrip(LStrip(s))

\* str.split('\n\n'): left to right, non-overlapping, empty pieces kept
RECURSIVE SplitAcc(_, _)
SplitAcc(s, cur) ==
  IF s = <<>> THEN <<cur>>
  ELSE IF Len(s) >= 2 /\ s[1] = "\n" /\ s[2] = "\n"
       THEN <<cur>> \o SplitAcc(SubSeq(s, 3, Len(s)), <<>>)
       ELSE SplitAcc(Tail(s), Append(cur, Head(s)))

Split(s) == SplitAcc(s, <<>>)

\* '\n'.join(parts)
RECURSIVE Join(_)
Join(parts) ==
  IF parts = <<>> THEN <<>>
  ELSE IF Len(parts) = 1 THEN parts[1]
  ELSE parts[1] \o <<"\n">> \o Join(Tail(parts))

\* ---------------------------------------------------------------- scrape
SelectedTagsParagraphsOnly == {"p"}

SelectedTags == {"p", "h1", "h2", "h3"}

El(tag, text) == [tag |-> tag, text |-> text]

IsSelected(e) == e.tag \in SelectedTags

\* soup.find_all([...]) in document order, get_text() of each, joined, stripped
Scrape(page) ==
  LET found == SelectSeq(page, IsSelected)
      texts == [i \in 1..Len(found) |-> found[i].text]
  IN Strip(Join(texts))

\* ----------------------------------------------------------------- index
NoIndex == [exists |-> FALSE, docs |-> <<>>]

\* the terms the analyzer indexes for a text: its words, lowercased
Tokens(s) == {Lower(s[i]) : i \in 1..Len(s)} \ Whitespace

\* the query's terms joined by OR
MatchesAnyTerm(doc, q) == Tokens(q) \cap Tokens(doc) # {}

\* QueryParser("content").parse(query): the conjunction of the query's terms;
\* a query without terms parses to the null query, which matches nothing
Matches(doc, q) == Tokens(q) # {} /\ Tokens(q) \subseteq Tokens(doc)

Hits(docs, q) == {i \in 1..Len(docs) : Matches(docs[i], q)}

\* returns the first stored document when nothing matched
SearchResultsFirstDoc(docs, q) ==
  IF Hits(docs, q) = {}
  THEN IF docs = <<>> THEN {None} ELSE {Some(docs[1])}
  ELSE {Some(docs[i]) : i \in Hits(docs, q)}

\* results[0]['content'] if results else None; the ranking among the hits is
\* the scoring function's, so any hit may come first
SearchResults(docs, q) ==
  IF Hits(docs, q) = {} THEN {None}
  ELSE {Some(docs[i]) : i \in Hits(docs, q)}

\* what the directory holds after `if not os.path.exists("index")`
OpenOrCreate(d) == IF d.exists THEN d ELSE [exists |-> TRUE, docs |-> <<>>]

\* every added document is written through to the index at once
DiskAfterAddWriteThrough(d, doc) == [d EXCEPT !.docs = Append(@, doc)]

\* writer.add_document: buffered in the writer, the directory's index untouched
DiskAfterAdd(d, doc) == d

\* the commit is left out
DiskAfterCommitForgotten(d, batch) == d

\* writer.commit(): the whole batch becomes visible
DiskAfterCommit(d, batch) == [d EXCEPT !.docs = @ \o batch]

\* empty pieces are skipped
ChunkDocsSkipEmpty(chunk) ==
  IF Strip(chunk) = <<>> THEN <<>> ELSE <<Strip(chunk)>>

\* the document index_content adds for one piece of the split
ChunkDocs(chunk) == <<Strip(chunk)>>

\* `if context:` in main
Truthy(ctx) == ctx # None /\ ctx[1] # <<>>

\* query.lower() == 'exit'
IsExit(q) == LowerStr(q) = <<"exit">>

\* ------------------------------------------------------------ environment
Urls == {"docs", "guide", "bare", "missing", "down"}

\* requests.get(url, timeout=10): what the network answers for each URL
HttpGet(u) ==
  CASE u = "docs" ->
         [reachable |-> TRUE, status |-> 200,
          body |-> <<El("h1", <<"setup">>), El("p", <<>>), El("p", <<"init">>)>>]
    [] u = "guide" ->
         [reachable |-> TRUE, status |-> 200,
          body |-> <<El("h2", <<"setup", " ", "Init">>), El("div", <<"xyzzy">>)>>]
    [] u = "bare" ->
         [reachable |-> TRUE, status |-> 200, body |-> <<El("h4", <<"init">>)>>]
    [] u = "missing" ->
         [reachable |-> TRUE, status |-> 404, body |-> <<El("p", <<"setup">>)>>]
    [] OTHER ->
         [reachable |-> FALSE, status |-> 0, body |-> <<>>]

\* requests.get raised, or response.raise_for_status() raises
FetchFails(r) == ~r.reachable \/ r.status >= 400

\* what the user types at the question prompt
MainQueries ==
  {<<"exit">>, <<" ", "EXIT">>, <<"init">>, <<"setup", " ", "init">>,
   <<"xyzzy">>, <<>>}

\* arguments of direct calls of index_content and search_content
ApiSym == {"init", "\n"}
ApiTexts == SeqsUpTo(ApiSym, MaxLen)
ApiQueries == {<<"Init">>, <<"init", " ", "setup">>, <<>>}

\* pages handed to the scraper alone
Tags == {"p", "h1", "h2", "h3", "h4", "div"}
ElemTexts == SeqsUpTo({"init", " ", "\n"}, MaxTextLen)
Elems == {El(t, x) : t \in Tags, x \in ElemTexts}
Pages == SeqsUpTo(Elems, MaxElems)

Fns ==
  {"scrape_documentation", "index_content", "load_qa_model", "search_content",
   "answer_query"}

SetupFns == {"scrape_documentation", "index_content", "load_qa_model"}

NoOutput == [kind |-> "none", text |-> <<>>]

\* ------------------------------------------------------------------ state
VARIABLES
  driver,      \* "main": main() runs; "api": the functions are called directly;
               \* "scrape": the scraper is applied to one page
  pc,          \* the statement about to run
  url,         \* main's url
  content,     \* the scraped text / index_content's argument (option)
  disk,        \* the "index" directory: [exists, docs]
  pre,         \* the index's documents when the running index_content opened it
  writer,      \* the documents buffered in the open writer
  todo,        \* content_chunks not yet added
  qa,          \* whether qa_pipeline is loaded
  query,       \* the stripped query
  context,     \* search_content's return value (option)
  output,      \* the last line main printed: [kind, text]
  failedIn,    \* the function whose exception is propagating or was caught
  lastCall,    \* the function last called directly
  calls,       \* how often each function was called in this session
  httpGets,    \* HTTP GETs issued in this session
  queriesRead, \* queries other than exit read in this session
  sessions,    \* runs of main so far
  diskAtStart, \* the directory when this session started
  indexed,     \* the texts of the index_content calls that committed
  page,        \* the page given to the scraper
  scraped      \* the scraper's return value (option)

vars ==
  <<driver, pc, url, content, disk, pre, writer, todo, qa, query, context,
    output, failedIn, lastCall, calls, httpGets, queriesRead, sessions,
    diskAtStart, indexed, page, scraped>>

FreshSession ==
  /\ url = "" /\ content = None /\ pre = <<>> /\ writer = <<>> /\ todo = <<>>
  /\ qa = FALSE /\ query = <<>> /\ context = None /\ output = NoOutput
  /\ failedIn = "none" /\ calls = [f \in Fns |-> 0] /\ httpGets = 0
  /\ queriesRead = 0

InitWith(d, start) ==
  /\ driver = d /\ pc = start
  /\ FreshSession
  /\ lastCall = "none" /\ sessions = 1
  /\ disk = NoIndex /\ diskAtStart = NoIndex /\ indexed = <<>>
  /\ scraped = None

Init == InitWith("main", "input_url") /\ page = <<>>

Called(f) == calls' = [calls EXCEPT ![f] = @ + 1]

\* the exception is swallowed and main goes on to the question loop
RaiseSwallowed(f) == pc' = "input_query" /\ failedIn' = f

\* an exception leaves function f
Raise(f) == pc' = "raised" /\ failedIn' = f

\* where a function returns to
Return(next) == pc' = IF driver = "main" THEN next ELSE "idle"

\* ------------------------------------------------------------------- main
\* url = input(...).strip()
ReadUrl(u) ==
  /\ driver = "main" /\ pc = "input_url"
  /\ url' = u
  /\ pc' = "scrape_documentation"
  /\ UNCHANGED <<driver, content, disk, pre, writer, todo, qa, query, context,
                 output, failedIn, lastCall, calls, httpGets, queriesRead,
                 sessions, diskAtStart, indexed, page, scraped>>

\* content = scrape_documentation(url)
ScrapeDocumentation ==
  /\ pc = "scrape_documentation"
  /\ Called("scrape_documentation")
  /\ httpGets' = httpGets + 1
  /\ LET r == HttpGet(url) IN
       IF FetchFails(r)
       THEN Raise("scrape_documentation") /\ content' = content
       ELSE /\ content' = Some(Scrape(r.body))
            /\ pc' = "index_content"
            /\ failedIn' = failedIn
  /\ UNCHANGED <<driver, url, disk, pre, writer, todo, qa, query, context,
                 output, lastCall, queriesRead, sessions, diskAtStart, indexed,
                 page, scraped>>

\* index_content, up to writer = ix.writer() and content.split('\n\n')
IndexOpen ==
  /\ pc = "index_content"
  /\ Called("index_content")
  /\ pre' = disk.docs
  /\ \/ /\ disk' = OpenOrCreate(disk)
        /\ writer' = <<>>
        /\ todo' = Split(content[1])
        /\ pc' = "add_document"
        /\ failedIn' = failedIn
     \/ /\ disk' \in {disk, OpenOrCreate(disk)}
        /\ Raise("index_content")
        /\ UNCHANGED <<writer, todo>>
  /\ UNCHANGED <<driver, url, content, qa, query, context, output, lastCall,
                 httpGets, queriesRead, sessions, diskAtStart, indexed, page,
                 scraped>>

\* one turn of `for chunk in content_chunks: writer.add_document(...)`
AddDocument ==
  /\ pc = "add_document" /\ todo # <<>>
  /\ \/ /\ writer' = writer \o ChunkDocs(Head(todo))
        /\ todo' = Tail(todo)
        /\ disk' = DiskAfterAdd(disk, Strip(Head(todo)))
        /\ UNCHANGED <<pc, failedIn>>
     \/ /\ Raise("index_content")
        /\ UNCHANGED <<writer, todo, disk>>
  /\ UNCHANGED <<driver, url, content, pre, qa, query, context, output,
                 lastCall, calls, httpGets, queriesRead, sessions, diskAtStart,
                 indexed, page, scraped>>

\* writer.commit() and the return of index_content
Commit ==
  /\ pc = "add_document" /\ todo = <<>>
  /\ \/ /\ disk' = DiskAfterCommit(disk, writer)
        /\ indexed' = Append(indexed, content[1])
        /\ Return("load_qa_model")
        /\ failedIn' = failedIn
     \/ /\ Raise("index_content")
        /\ UNCHANGED <<disk, indexed>>
  /\ UNCHANGED <<driver, url, content, pre, writer, todo, qa, query, context,
                 output, lastCall, calls, httpGets, queriesRead, sessions,
                 diskAtStart, page, scraped>>

\* qa_pipeline = load_qa_model()
LoadQaModel ==
  /\ pc = "load_qa_model"
  /\ Called("load_qa_model")
  /\ \/ qa' = TRUE /\ pc' = "input_query" /\ failedIn' = failedIn
     \/ qa' = qa /\ Raise("load_qa_model")
  /\ UNCHANGED <<driver, url, content, disk, pre, writer, todo, query, context,
                 output, lastCall, httpGets, queriesRead, sessions, diskAtStart,
                 indexed, page, scraped>>

AfterReportBreaks == "done"

AfterFatalRetries == "scrape_documentation"

\* where the loop goes after the no-match message
AfterReport == "input_query"

\* where the outermost handler leaves main
AfterFatal == "done"

\* query = input(...).strip() and the exit test
ReadQuery(raw) ==
  /\ pc = "input_query"
  /\ query' = Strip(raw)
  /\ IF IsExit(query')
     THEN /\ output' = [kind |-> "bye", text |-> <<>>]
          /\ pc' = "done"
          /\ queriesRead' = queriesRead
     ELSE /\ queriesRead < MaxQueries
          /\ queriesRead' = queriesRead + 1
          /\ pc' = "search_content"
          /\ output' = output
  /\ UNCHANGED <<driver, url, content, disk, pre, writer, todo, qa, context,
                 failedIn, lastCall, calls, httpGets, sessions, diskAtStart,
                 indexed, page, scraped>>

\* context = search_content(query)
SearchContent ==
  /\ pc = "search_content"
  /\ Called("search_content")
  /\ IF ~disk.exists
     THEN Raise("search_content") /\ context' = context
     ELSE /\ context' \in SearchResults(disk.docs, query)
          /\ Return("if_context")
          /\ failedIn' = failedIn
  /\ UNCHANGED <<driver, url, content, disk, pre, writer, todo, qa, query,
                 output, lastCall, httpGets, queriesRead, sessions, diskAtStart,
                 indexed, page, scraped>>

\* if context: answer = answer_query(...); print the answer
AnswerQuery ==
  /\ pc = "if_context" /\ Truthy(context)
  /\ Called("answer_query")
  /\ \/ /\ \E w \in Tokens(context[1]) :
             output' = [kind |-> "answer", text |-> <<w>>]
        /\ pc' = "input_query"
        /\ failedIn' = failedIn
     \/ /\ Raise("answer_query")
        /\ output' = output
  /\ UNCHANGED <<driver, url, content, disk, pre, writer, todo, qa, query,
                 context, lastCall, httpGets, queriesRead, sessions,
                 diskAtStart, indexed, page, scraped>>

\* else: print(handle_missing_info())
ReportMissing ==
  /\ pc = "if_context" /\ ~Truthy(context)
  /\ output' = [kind |-> "missing", text |-> <<>>]
  /\ pc' = AfterReport
  /\ UNCHANGED <<driver, url, content, disk, pre, writer, todo, qa, query,
                 context, failedIn, lastCall, calls, httpGets, queriesRead,
                 sessions, diskAtStart, indexed, page, scraped>>

\* except Exception as e: print(f"[FATAL ERROR] {e}")
FatalError ==
  /\ driver = "main" /\ pc = "raised"
  /\ output' = [kind |-> "fatal", text |-> <<failedIn>>]
  /\ pc' = AfterFatal
  /\ UNCHANGED <<driver, url, content, disk, pre, writer, todo, qa, query,
                 context, failedIn, lastCall, calls, httpGets, queriesRead,
                 sessions, diskAtStart, indexed, page, scraped>>

\* the script is run again; only the index directory survives
NewSession ==
  /\ driver = "main" /\ pc = "done" /\ sessions < MaxSessions
  /\ sessions' = sessions + 1
  /\ pc' = "input_url"
  /\ diskAtStart' = disk
  /\ url' = "" /\ content' = None /\ pre' = <<>> /\ writer' = <<>>
  /\ todo' = <<>> /\ qa' = FALSE /\ query' = <<>> /\ context' = None
  /\ output' = NoOutput /\ failedIn' = "none" /\ calls' = [f \in Fns |-> 0]
  /\ httpGets' = 0 /\ queriesRead' = 0
  /\ UNCHANGED <<driver, disk, lastCall, indexed, page, scraped>>

Next ==
  \/ \E u \in Urls : ReadUrl(u)
  \/ ScrapeDocumentation
  \/ IndexOpen
  \/ AddDocument
  \/ Commit
  \/ LoadQaModel
  \/ \E raw \in MainQueries : ReadQuery(raw)
  \/ SearchContent
  \/ AnswerQuery
  \/ ReportMissing
  \/ FatalError
  \/ NewSession

Spec == Init /\ [][Next]_vars

\* ----------------------------------------------------------- direct calls
ApiFresh ==
  /\ pre' = <<>> /\ writer' = <<>> /\ todo' = <<>>
  /\ failedIn' = "none"
  /\ calls' = [f \in Fns |-> 0]
  /\ UNCHANGED <<driver, url, disk, qa, output, httpGets, queriesRead,
                 sessions, diskAtStart, indexed, page, scraped>>

\* index_content(t)
ApiIndexContent(t) ==
  /\ driver = "api" /\ pc = "idle"
  /\ Len(indexed) < MaxIndexCalls
  /\ content' = Some(t) /\ query' = <<>> /\ context' = None
  /\ lastCall' = "index_content"
  /\ pc' = "index_content"
  /\ ApiFresh

\* search_content(q)
ApiSearchContent(q) ==
  /\ driver = "api" /\ pc = "idle"
  /\ content' = None /\ query' = q /\ context' = None
  /\ lastCall' = "search_content"
  /\ pc' = "search_content"
  /\ ApiFresh

\* the caller catches the exception of a direct call; the call's locals are gone
ApiCatch ==
  /\ driver = "api" /\ pc = "raised"
  /\ content' = None /\ query' = <<>> /\ context' = None
  /\ pc' = "idle"
  /\ lastCall' = "none"
  /\ ApiFresh

ApiInit == InitWith("api", "idle") /\ page = <<>>

ApiNext ==
  \/ \E t \in ApiTexts : ApiIndexContent(t)
  \/ \E q \in ApiQueries : ApiSearchContent(q)
  \/ ApiCatch
  \/ IndexOpen
  \/ AddDocument
  \/ Commit
  \/ SearchContent

ApiSpec == ApiInit /\ [][ApiNext]_vars

\* ------------------------------------------------------- the scraper alone
ScrapePage ==
  /\ driver = "scrape" /\ pc = "scrape_page"
  /\ scraped' = Some(Scrape(page))
  /\ pc' = "idle"
  /\ UNCHANGED <<driver, url, content, disk, pre, writer, todo, qa, query,
                 context, output, failedIn, lastCall, calls, httpGets,
                 queriesRead, sessions, diskAtStart, indexed, page>>

ScrapeInit == InitWith("scrape", "scrape_page") /\ page \in Pages

ScrapeNext == ScrapePage

ScrapeSpec == ScrapeInit /\ [][ScrapeNext]_vars

\* ------------------------------------------------------------- properties
Interactive == {"input_query", "search_content", "if_context"}

QueryFns == {"search_content", "answer_query"}

Answered == calls["answer_query"]

\* the index holds no document that the query matches
ZeroHits == disk.exists /\ Hits(disk.docs, query) = {}

\* the documents index_content is to add for a text, from the text alone
Expected(t) == [i \in 1..Len(Split(t)) |-> Strip(Split(t)[i])]

\* the non-overlapping occurrences of "\n\n" in a text, left to right
RECURSIVE CountSep(_)
CountSep(s) ==
  IF Len(s) < 2 THEN 0
  ELSE IF s[1] = "\n" /\ s[2] = "\n" THEN 1 + CountSep(SubSeq(s, 3, Len(s)))
  ELSE CountSep(Tail(s))

RECURSIVE AllChunks(_)
AllChunks(texts) ==
  IF texts = <<>> THEN <<>>
  ELSE AllChunks(SubSeq(texts, 1, Len(texts) - 1)) \o Expected(texts[Len(texts)])

Count(seq, x) == Cardinality({i \in 1..Len(seq) : seq[i] = x})

\* sub occurs in s as a contiguous run
Contains(s, sub) ==
  \E k \in 0..(Len(s) - Len(sub)) : SubSeq(s, k + 1, k + Len(sub)) = sub

\* the text has every word of the query, compared without case
HasAllWords(text, q) ==
  /\ \E j \in 1..Len(q) : q[j] \notin Whitespace
  /\ \A j \in 1..Len(q) :
       q[j] \notin Whitespace =>
         \E k \in 1..Len(text) : Lower(text[k]) = Lower(q[j])

\* C1: in the question loop, a query that is not the exit command and has no
\* hit in the index makes search_content return None, then main prints the
\* no-relevant-information message without calling the QA model, and goes
\* back to the prompt.
C1_NoHitsReported ==
  [][ZeroHits =>
       /\ pc = "search_content" =>
            pc' = "if_context" /\ context' = None /\ Answered' = Answered
       /\ pc = "if_context" =>
            /\ pc' = "input_query"
            /\ output'.kind = "missing"
            /\ Answered' = Answered]_vars

C1_Witness ==
  /\ pc = "input_query" /\ output.kind = "missing"
  /\ query = <<"xyzzy">> /\ ZeroHits /\ disk.docs # <<>> /\ Answered = 0

\* C2 as stated: the question loop is left only by the exit command, and
\* main ends only on the exit command or on an exception of the setup.
C2_OnlyExitOrSetupFailure ==
  /\ pc = "done" => output.kind = "bye" \/ failedIn \in SetupFns
  /\ qa /\ pc \notin Interactive => output.kind = "bye"

\* C2 amended: the question loop is left only by the exit command or by an
\* exception raised while a query is handled; main ends only on the exit
\* command (after the setup succeeded), or with the fatal message on an
\* exception of the setup or of the handling of a query.
C2_ExitOrAnyFailure ==
  /\ pc = "done" =>
       \/ output.kind = "bye" /\ failedIn = "none" /\ qa
       \/ output.kind = "fatal" /\ failedIn \in SetupFns /\ ~qa
       \/ output.kind = "fatal" /\ failedIn \in QueryFns /\ qa
  /\ qa /\ pc \notin Interactive =>
       \/ pc = "done" /\ output.kind = "bye"
       \/ pc \in {"raised", "done"} /\ failedIn \in QueryFns

C2_Witness ==
  pc = "done" /\ failedIn = "answer_query" /\ output.kind = "fatal"
  /\ queriesRead = 2

\* C3: in a session each of fetch, index and model load runs at most once,
\* index only after the fetch returned, load only after the index was
\* committed; no query is read before all three succeeded; and once the
\* fetch has run exactly one HTTP GET was issued, however many queries
\* follow.
C3_SetupOnceInOrder ==
  /\ \A f \in SetupFns : calls[f] <= 1
  /\ httpGets = calls["scrape_documentation"]
  /\ pc \notin {"input_url", "scrape_documentation"} => httpGets = 1
  /\ calls["index_content"] = 1 =>
       calls["scrape_documentation"] = 1 /\ content # None
  /\ calls["load_qa_model"] = 1 =>
       /\ calls["index_content"] = 1
       /\ disk.docs = diskAtStart.docs \o Expected(content[1])
  /\ (queriesRead > 0 \/ pc \in Interactive \/ calls["search_content"] > 0) =>
       /\ qa
       /\ \A f \in SetupFns : calls[f] = 1
       /\ failedIn \notin SetupFns

C3_Witness ==
  pc = "input_query" /\ queriesRead = 2 /\ httpGets = 1 /\ sessions = 2

C4_FailureState ==
  /\ failedIn \in SetupFns =>
       /\ pc \in {"raised", "done"}
       /\ calls[failedIn] = 1
       /\ queriesRead = 0 /\ calls["search_content"] = 0 /\ ~qa
       /\ pc = "done" => output.kind = "fatal"
  /\ failedIn = "scrape_documentation" =>
       content = None /\ calls["index_content"] = 0

C4_HandlerStep ==
  pc = "raised" => pc' = "done" /\ output'.kind = "fatal"

\* C4: after an exception of the fetch, the indexing or the model load, the
\* only step main takes is the outermost handler's, which prints the fatal
\* message and ends the session; the failed step ran once, no query is read,
\* and after a failed fetch index_content was never called and no content
\* exists.
C4_SetupFailureIsFatal == []C4_FailureState /\ [][C4_HandlerStep]_vars

C4_Witness ==
  pc = "done" /\ failedIn = "scrape_documentation" /\ url = "missing"
  /\ output.kind = "fatal"

\* C5: the index directory exists once index_content opened it, its
\* documents are at all times those of the committed calls in order, and a
\* call that returned left the documents it found followed by one document
\* per piece of its text split at "\n\n" (1 + the number of separators),
\* each piece stripped, empty pieces included; so every document's number of
\* copies grew by its number of occurrences among the pieces.
C5_AppendOnly ==
  /\ disk.docs = AllChunks(indexed)
  /\ indexed # <<>> => disk.exists
  /\ (lastCall = "index_content" /\ pc = "idle") =>
       /\ disk.exists
       /\ disk.docs = pre \o Expected(content[1])
       /\ Len(disk.docs) = Len(pre) + 1 + CountSep(content[1])
       /\ \A i \in 1..Len(disk.docs) :
            Count(disk.docs, disk.docs[i]) =
              Count(pre, disk.docs[i]) + Count(Expected(content[1]), disk.docs[i])

C5_Witness ==
  /\ lastCall = "index_content" /\ pc = "idle"
  /\ Len(indexed) = 2 /\ indexed[1] = indexed[2]
  /\ indexed[1] = <<"init", "\n", "\n">>
  /\ disk.docs = <<<<"init">>, <<>>, <<"init">>, <<>>>>

\* C6 as stated: search_content called while no index directory exists
\* returns None and raises nothing.
C6_SearchWithoutIndexReturnsNone ==
  (lastCall = "search_content" /\ ~disk.exists /\ pc # "search_content") =>
    pc = "idle" /\ context = None /\ failedIn = "none"

Headings == {"h1", "h2", "h3", "h4"}

\* C7 as stated: for a page with a paragraph or a heading of any level, the
\* scraper returns a non-empty string that contains that element's text.
C7_AnyParagraphOrHeading ==
  pc = "idle" =>
    \A i \in 1..Len(page) :
      page[i].tag \in {"p"} \cup Headings =>
        scraped[1] # <<>> /\ Contains(scraped[1], page[i].text)

\* C7 amended: for a page with a p, h1, h2 or h3 element whose text is not
\* only whitespace, the scraper returns a non-empty string that contains
\* that element's text stripped of leading and trailing whitespace.
C7_SelectedNonBlankElement ==
  pc = "idle" =>
    \A i \in 1..Len(page) :
      (page[i].tag \in {"p", "h1", "h2", "h3"} /\ Strip(page[i].text) # <<>>) =>
        scraped[1] # <<>> /\ Contains(scraped[1], Strip(page[i].text))

C7_Witness ==
  /\ pc = "idle" /\ Len(page) = 2
  /\ page[1] = El("h3", <<"init">>) /\ page[2] = El("p", <<" ">>)
  /\ scraped = Some(<<"init">>)

\* C8: from the moment an index_content call has opened the index, the
\* documents of the index are either those it found or those followed by all
\* the documents of the call; after a call that raised, also part-way
\* through its add_document loop, they are those it found.
C8_AllOrNothing ==
  calls["index_content"] >= 1 =>
    /\ disk.docs = pre \/ disk.docs = pre \o Expected(content[1])
    /\ (pc = "add_document" \/ failedIn = "index_content") => disk.docs = pre

C8_Witness ==
  /\ failedIn = "index_content" /\ pc = "raised"
  /\ writer # <<>> /\ todo # <<>> /\ pre # <<>>
  /\ disk.docs = pre

C10_IndexAfterAbort ==
  /\ failedIn = "scrape_documentation" =>
       disk = diskAtStart /\ ~qa /\ calls["load_qa_model"] = 0
  /\ failedIn = "load_qa_model" =>
       /\ disk # diskAtStart
       /\ disk.exists
       /\ disk.docs = diskAtStart.docs \o Expected(content[1])
       /\ Len(disk.docs) > Len(diskAtStart.docs)

C10_Witness ==
  /\ pc = "done" /\ failedIn = "load_qa_model" /\ sessions = 2
  /\ diskAtStart.exists /\ diskAtStart.docs # <<>>
  /\ content = Some(<<>>)

====
